---- MODULE Spec2Model ----
(***************************************************************************)
(* Model of setup-gtzan-dataset.py: fetch a dataset snapshot, read the     *)
(* metadata table test.csv and move every listed file into                 *)
(* GT-Music-Genre/test/<classname>/<basename>.                             *)
(*                                                                         *)
(* The filesystem is a function from the paths that exist to entries; a    *)
(* path is the sequence of its components relative to the working          *)
(* directory.  Every statement of the script is one action of a run; two   *)
(* runs of the script exist, executed one after the other (Spec) or        *)
(* interleaved (SpecConc).                                                 *)
(***************************************************************************)
EXTENDS Naturals, Sequences, FiniteSets

VARIABLES
    remote,   \* audio files of the remote snapshot (paths relative to base_dir)
    csvKind,  \* the remote test.csv: "ok", "malformed" or "absent"
    table,    \* the rows of the remote test.csv, in file order
    fs,       \* the local filesystem, shared by the runs
    pc,       \* pc[r]: the statement run r executes next
    df,       \* df[r]: the DataFrame run r has loaded
    idx,      \* idx[r]: number of the row run r is processing (0 before the loop)
    err,      \* err[r]: the exception that ended run r and the statement that raised it
    log,      \* log[r]: what run r has done so far, in order (warn/done are its stdout)
    fs0       \* fs0[r]: the filesystem when run r entered the loop

vars == <<remote, csvKind, table, fs, pc, df, idx, err, log, fs0>>

----------------------------------------------------------------------------
(* Bounds of the model.                                                    *)

MaxRows == 2

\* Longest table of the interleaved runs.
MaxConcRows == 1

Runs == {"first", "second"}

Labels == {"rock", "jazz"}

\* Values of the 'path' column.  The table is well formed: a path names an
\* audio file of the split, never a directory, and a class label is a plain
\* name.  Two paths lie outside the genre tree and have the same basename, one
\* lies inside test/<classname>/.
RowPaths == { <<"a", "x.wav">>, <<"test", "x.wav">>, <<"test", "rock", "x.wav">> }

Rows == [path : RowPaths, classname : Labels]

RECURSIVE SeqsUpTo(_, _)
SeqsUpTo(S, n) ==
    IF n = 0 THEN {<<>>}
    ELSE LET shorter == SeqsUpTo(S, n - 1)
         IN  shorter \cup {Append(s, x) : s \in {t \in shorter : Len(t) = n - 1}, x \in S}

Tables == SeqsUpTo(Rows, MaxRows)

----------------------------------------------------------------------------
(* Paths and the filesystem primitives the script calls.                   *)

audio_datasets_path == <<>>

base_dir == <<"GT-Music-Genre">>

csv_name == <<"test.csv">>

Join(a, b) == a \o b

basename(p) == IF Len(p) = 0 THEN <<>> ELSE <<p[Len(p)]>>

Dir == [kind |-> "dir", data |-> <<>>]

File(content) == [kind |-> "file", data |-> content]

exists(f, p) == p \in DOMAIN f

isdir(f, p) == exists(f, p) /\ f[p].kind = "dir"

isfile(f, p) == exists(f, p) /\ f[p].kind = "file"

Ancestors(p) == {SubSeq(p, 1, k) : k \in 0..(Len(p) - 1)}

IsPrefix(a, p) == Len(a) <= Len(p) /\ SubSeq(p, 1, Len(a)) = a

Ok(f) == [err |-> "none", fs |-> f]

Raise(e, f) == [err |-> e, fs |-> f]

\* Faulty variant of makedirs: exist_ok is not passed, an existing directory raises.
makedirs_strict(f, p) ==
    IF exists(f, p) THEN Raise("FileExistsError", f)
    ELSE IF \E a \in Ancestors(p) : isfile(f, a) THEN Raise("NotADirectoryError", f)
    ELSE Ok([q \in DOMAIN f \cup Ancestors(p) \cup {p} |->
                IF q \in DOMAIN f THEN f[q] ELSE Dir])

\* Faulty variant of makedirs: an existing directory is emptied before it is
\* created again.
makedirs_fresh(f, p) ==
    IF \E a \in Ancestors(p) : isfile(f, a) THEN Raise("NotADirectoryError", f)
    ELSE IF isfile(f, p) THEN Raise("FileExistsError", f)
    ELSE LET kept == {q \in DOMAIN f : ~(IsPrefix(p, q) /\ q # p)}
         IN  Ok([q \in kept \cup Ancestors(p) \cup {p} |->
                    IF q \in kept THEN f[q] ELSE Dir])

\* os.makedirs(p, exist_ok=True)
makedirs(f, p) ==
    IF \E a \in Ancestors(p) : isfile(f, a) THEN Raise("NotADirectoryError", f)
    ELSE IF isfile(f, p) THEN Raise("FileExistsError", f)
    ELSE Ok([q \in DOMAIN f \cup Ancestors(p) \cup {p} |->
                IF q \in DOMAIN f THEN f[q] ELSE Dir])

\* Faulty variant of rename: a destination that exists is kept and the source
\* is dropped.
rename_keep(f, src, dst) ==
    IF ~exists(f, src) THEN Raise("FileNotFoundError", f)
    ELSE IF ~isdir(f, SubSeq(dst, 1, Len(dst) - 1)) THEN Raise("FileNotFoundError", f)
    ELSE IF src = dst THEN Ok(f)
    ELSE IF exists(f, dst) THEN Ok([q \in DOMAIN f \ {src} |-> f[q]])
    ELSE Ok([q \in (DOMAIN f \ {src}) \cup {dst} |->
                IF q = dst THEN f[src] ELSE f[q]])

\* os.rename(src, dst) on POSIX
rename(f, src, dst) ==
    IF ~exists(f, src) THEN Raise("FileNotFoundError", f)
    ELSE IF ~isdir(f, SubSeq(dst, 1, Len(dst) - 1)) THEN Raise("FileNotFoundError", f)
    ELSE IF src = dst THEN Ok(f)
    ELSE IF isfile(f, src) THEN
        IF isdir(f, dst) THEN Raise("IsADirectoryError", f)
        ELSE Ok([q \in (DOMAIN f \ {src}) \cup {dst} |->
                    IF q = dst THEN f[src] ELSE f[q]])
    ELSE \* src is a directory: the whole subtree moves
        IF IsPrefix(src, dst) THEN Raise("OSError", f)
        ELSE IF exists(f, dst) THEN Raise("OSError", f)
        ELSE LET moved == {q \in DOMAIN f : IsPrefix(src, q)}
                 target(q) == Join(dst, SubSeq(q, Len(src) + 1, Len(q)))
             IN  Ok([q \in (DOMAIN f \ moved) \cup {target(m) : m \in moved} |->
                        IF \E m \in moved : target(m) = q
                        THEN f[CHOOSE m \in moved : target(m) = q]
                        ELSE f[q]])

\* Faulty variant of move: the file is copied, the source stays.
move_copy(f, src, dst) ==
    IF ~exists(f, src) THEN Raise("FileNotFoundError", f)
    ELSE Ok([q \in DOMAIN f \cup {dst} |-> IF q = dst THEN f[src] ELSE f[q]])

\* shutil.move(src, dst)
move(f, src, dst) ==
    LET real_dst == IF isdir(f, dst) THEN Join(dst, basename(src)) ELSE dst
    IN  IF isdir(f, dst) /\ src = dst THEN rename(f, src, dst)
        ELSE IF isdir(f, dst) /\ exists(f, real_dst) THEN Raise("shutil.Error", f)
        ELSE rename(f, src, real_dst)

----------------------------------------------------------------------------
(* The dataset fetcher: huggingface_hub.snapshot_download(local_dir=...)   *)

local_dir == Join(audio_datasets_path, base_dir)

RemoteFiles == remote \cup (IF csvKind = "absent" THEN {} ELSE {csv_name})

\* Faulty variant of Download: a local directory that exists is taken for a
\* finished download and nothing is fetched.
Download_cached(f, W) ==
    IF exists(f, local_dir) THEN f
    ELSE LET targets == {Join(local_dir, w) : w \in W}
             newdirs == {local_dir} \cup UNION {Ancestors(t) : t \in targets}
         IN  [q \in DOMAIN f \cup newdirs \cup targets |->
                 IF q \in targets THEN File(SubSeq(q, Len(local_dir) + 1, Len(q)))
                 ELSE IF q \in DOMAIN f THEN f[q]
                 ELSE Dir]

\* The local tree with the remote files W written under local_dir: every
\* missing directory is created and each file holds its remote content.
Download(f, W) ==
    LET targets == {Join(local_dir, w) : w \in W}
        newdirs == {local_dir} \cup UNION {Ancestors(t) : t \in targets}
    IN  [q \in DOMAIN f \cup newdirs \cup targets |->
            IF q \in targets THEN File(SubSeq(q, Len(local_dir) + 1, Len(q)))
            ELSE IF q \in DOMAIN f THEN f[q]
            ELSE Dir]

----------------------------------------------------------------------------
(* The per-row names of the organizer loop.                                *)

save_dir == Join(base_dir, <<"test">>)

source_file(row) == Join(base_dir, row.path)

filename(row) == basename(source_file(row))

genre_dir(row) == Join(save_dir, <<row.classname>>)

dest_file(row) == Join(genre_dir(row), filename(row))

Event(op, n, row) == [op |-> op, row |-> n, src |-> source_file(row), dst |-> dest_file(row)]

\* Faulty variant of WarningLine: the warning names the destination.
WarningLine_dest(n, row) ==
    [op |-> "warn", row |-> n, src |-> dest_file(row), dst |-> dest_file(row)]

WarningLine(n, row) == Event("warn", n, row)

DoneLine == [op |-> "done", row |-> 0, src |-> <<>>, dst |-> <<>>]

----------------------------------------------------------------------------
(* Initial states.                                                         *)

NoError == [at |-> "", exc |-> "none"]

Init ==
    /\ remote \in SUBSET RowPaths
    /\ csvKind \in {"ok", "malformed", "absent"}
    /\ table \in (IF csvKind = "ok" THEN Tables ELSE {<<>>})
    /\ fs = [q \in {<<>>} |-> Dir]
    /\ pc = [r \in Runs |-> "start"]
    /\ df = [r \in Runs |-> <<>>]
    /\ idx = [r \in Runs |-> 0]
    /\ err = [r \in Runs |-> NoError]
    /\ log = [r \in Runs |-> <<>>]
    /\ fs0 = [r \in Runs |-> fs]

----------------------------------------------------------------------------
(* The statements of the script, each as an action of run r.               *)

\* Faulty variant of Crash: the exception is caught and the script goes on
\* to the loop.
Crash_swallow(r, e) ==
    /\ pc' = [pc EXCEPT ![r] = "iter"]
    /\ err' = [err EXCEPT ![r] = [at |-> pc[r], exc |-> e]]

\* An uncaught exception e ends run r at the statement it is executing.
Crash(r, e) ==
    /\ pc' = [pc EXCEPT ![r] = "crashed"]
    /\ err' = [err EXCEPT ![r] = [at |-> pc[r], exc |-> e]]

\* lines 8-9
EnsureRoot(r) ==
    /\ pc[r] = "start"
    /\ LET res == IF ~exists(fs, audio_datasets_path)
                  THEN makedirs(fs, audio_datasets_path) ELSE Ok(fs)
       IN  /\ fs' = res.fs
           /\ IF res.err = "none"
              THEN pc' = [pc EXCEPT ![r] = "fetch"] /\ err' = err
              ELSE Crash(r, res.err)
    /\ UNCHANGED <<remote, csvKind, table, df, idx, log, fs0>>

\* lines 11-15, the fetch succeeds
FetchOk(r) ==
    /\ pc[r] = "fetch"
    /\ fs' = Download(fs, RemoteFiles)
    /\ pc' = [pc EXCEPT ![r] = "mksave"]
    /\ UNCHANGED <<remote, csvKind, table, df, idx, err, log, fs0>>

\* lines 11-15, the fetch raises after writing only part of the snapshot
FetchFail(r) ==
    /\ pc[r] = "fetch"
    /\ \E W \in SUBSET RemoteFiles :
           /\ W # RemoteFiles \/ RemoteFiles = {}
           /\ fs' = (IF W = {} THEN fs ELSE Download(fs, W))
    /\ Crash(r, "FetchError")
    /\ UNCHANGED <<remote, csvKind, table, df, idx, log, fs0>>

\* lines 22-23
MakeSaveDir(r) ==
    /\ pc[r] = "mksave"
    /\ LET res == makedirs(fs, save_dir)
       IN  /\ fs' = res.fs
           /\ IF res.err = "none"
              THEN pc' = [pc EXCEPT ![r] = "read"] /\ err' = err
              ELSE Crash(r, res.err)
    /\ UNCHANGED <<remote, csvKind, table, df, idx, log, fs0>>

\* pd.read_csv(path): the rows of the file, or the exception it raises
read_csv(f, p) ==
    IF ~isfile(f, p) THEN [err |-> "FileNotFoundError", rows |-> <<>>]
    ELSE IF csvKind = "malformed" THEN [err |-> "ParserError", rows |-> <<>>]
    ELSE [err |-> "none", rows |-> table]

\* line 26
ReadCsv(r) ==
    /\ pc[r] = "read"
    /\ LET res == read_csv(fs, Join(base_dir, csv_name))
       IN  IF res.err = "none"
           THEN /\ df' = [df EXCEPT ![r] = res.rows]
                /\ fs0' = [fs0 EXCEPT ![r] = fs]
                /\ pc' = [pc EXCEPT ![r] = "iter"]
                /\ err' = err
           ELSE /\ Crash(r, res.err)
                /\ UNCHANGED <<df, fs0>>
    /\ UNCHANGED <<remote, csvKind, table, fs, idx, log>>

\* Faulty variant of iterrows: the last row is left out.
iterrows_short(d, n) == IF n + 1 < Len(d) THEN n + 1 ELSE 0

\* Faulty variant of iterrows: the rows come last to first.
iterrows_backwards(d, n) ==
    IF n = 0 THEN Len(d) ELSE IF n > 1 THEN n - 1 ELSE 0

\* df.iterrows(): the number of the row that follows row n, 0 when exhausted
iterrows(d, n) == IF n < Len(d) THEN n + 1 ELSE 0

\* line 29: take the next row, or leave the loop
Iterate(r) ==
    /\ pc[r] = "iter"
    /\ LET n == iterrows(df[r], idx[r])
       IN  IF n # 0
           THEN /\ idx' = [idx EXCEPT ![r] = n]
                /\ pc' = [pc EXCEPT ![r] = "mkgenre"]
           ELSE /\ idx' = idx
                /\ pc' = [pc EXCEPT ![r] = "print"]
    /\ UNCHANGED <<remote, csvKind, table, fs, df, err, log, fs0>>

\* lines 31-37
MakeGenreDir(r) ==
    /\ pc[r] = "mkgenre"
    /\ LET row == df[r][idx[r]]
           res == makedirs(fs, genre_dir(row))
       IN  /\ fs' = res.fs
           /\ IF res.err = "none"
              THEN /\ pc' = [pc EXCEPT ![r] = "check"]
                   /\ err' = err
                   /\ log' = [log EXCEPT ![r] = Append(@, Event("mkdir", idx[r], row))]
              ELSE Crash(r, res.err) /\ log' = log
    /\ UNCHANGED <<remote, csvKind, table, df, idx, fs0>>

\* Faulty variant of CheckExists: the destination is tested, not the source.
CheckExists_dest(r) ==
    /\ pc[r] = "check"
    /\ pc' = [pc EXCEPT ![r] =
                IF exists(fs, dest_file(df[r][idx[r]])) THEN "move" ELSE "warn"]
    /\ UNCHANGED <<remote, csvKind, table, fs, df, idx, err, log, fs0>>

\* line 43
CheckExists(r) ==
    /\ pc[r] = "check"
    /\ pc' = [pc EXCEPT ![r] =
                IF exists(fs, source_file(df[r][idx[r]])) THEN "move" ELSE "warn"]
    /\ UNCHANGED <<remote, csvKind, table, fs, df, idx, err, log, fs0>>

\* line 44
Move(r) ==
    /\ pc[r] = "move"
    /\ LET row == df[r][idx[r]]
           res == move(fs, source_file(row), dest_file(row))
       IN  /\ fs' = res.fs
           /\ IF res.err = "none"
              THEN /\ pc' = [pc EXCEPT ![r] = "iter"]
                   /\ err' = err
                   /\ log' = [log EXCEPT ![r] = Append(@, Event("move", idx[r], row))]
              ELSE Crash(r, res.err) /\ log' = log
    /\ UNCHANGED <<remote, csvKind, table, df, idx, fs0>>

\* line 46
Warn(r) ==
    /\ pc[r] = "warn"
    /\ log' = [log EXCEPT ![r] = Append(@, WarningLine(idx[r], df[r][idx[r]]))]
    /\ pc' = [pc EXCEPT ![r] = "iter"]
    /\ UNCHANGED <<remote, csvKind, table, fs, df, idx, err, fs0>>

\* line 48
PrintDone(r) ==
    /\ pc[r] = "print"
    /\ log' = [log EXCEPT ![r] = Append(@, DoneLine)]
    /\ pc' = [pc EXCEPT ![r] = "done"]
    /\ UNCHANGED <<remote, csvKind, table, fs, df, idx, err, fs0>>

Terminated(r) == pc[r] \in {"done", "crashed"}

\* One invocation after the other: the second starts when the first has ended.
MayRun(r) == r = "first" \/ Terminated("first")

Next ==
    \/ \E r \in Runs : MayRun(r) /\ EnsureRoot(r)
    \/ \E r \in Runs : MayRun(r) /\ FetchOk(r)
    \/ \E r \in Runs : MayRun(r) /\ FetchFail(r)
    \/ \E r \in Runs : MayRun(r) /\ MakeSaveDir(r)
    \/ \E r \in Runs : MayRun(r) /\ ReadCsv(r)
    \/ \E r \in Runs : MayRun(r) /\ Iterate(r)
    \/ \E r \in Runs : MayRun(r) /\ MakeGenreDir(r)
    \/ \E r \in Runs : MayRun(r) /\ CheckExists(r)
    \/ \E r \in Runs : MayRun(r) /\ Move(r)
    \/ \E r \in Runs : MayRun(r) /\ Warn(r)
    \/ \E r \in Runs : MayRun(r) /\ PrintDone(r)

Spec == Init /\ [][Next]_vars

\* The script has no suspension point: a run that has a next statement executes it.
FairSpec == Spec /\ WF_vars(Next)

\* Two invocations against the same directory at the same time, their
\* statements interleaved.
InitConc == Init /\ Len(table) <= MaxConcRows

NextConc ==
    \/ \E r \in Runs : EnsureRoot(r)
    \/ \E r \in Runs : FetchOk(r)
    \/ \E r \in Runs : FetchFail(r)
    \/ \E r \in Runs : MakeSaveDir(r)
    \/ \E r \in Runs : ReadCsv(r)
    \/ \E r \in Runs : Iterate(r)
    \/ \E r \in Runs : MakeGenreDir(r)
    \/ \E r \in Runs : CheckExists(r)
    \/ \E r \in Runs : Move(r)
    \/ \E r \in Runs : Warn(r)
    \/ \E r \in Runs : PrintDone(r)

SpecConc == InitConc /\ [][NextConc]_vars

----------------------------------------------------------------------------
(* Vocabulary of the properties.                                           *)

FilesOf(f) == {p \in DOMAIN f : f[p].kind = "file"}

DirsOf(f) == {p \in DOMAIN f : f[p].kind = "dir"}

RowNums(r) == 1..Len(df[r])

Sources(r) == {source_file(df[r][n]) : n \in RowNums(r)}

Dests(r) == {dest_file(df[r][n]) : n \in RowNums(r)}

\* The positions of log[r] that hold an event op of row n.
EventsOf(r, op, n) == {k \in 1..Len(log[r]) : log[r][k].op = op /\ log[r][k].row = n}

Moved(r, n) == EventsOf(r, "move", n) # {}

Warned(r, n) == EventsOf(r, "warn", n) # {}

\* Run r has finished with row n.
RowDone(r, n) ==
    /\ n \in RowNums(r)
    /\ \/ n < idx[r]
       \/ n = idx[r] /\ pc[r] \in {"iter", "print", "done"}

\* Run r has completed and no later run has started.
Settled(r) == pc[r] = "done" /\ (r = "first" => pc["second"] = "start")

\* The files a sequential pass over rows 1..n-1 leaves when it starts from the
\* files P: a row whose source is present takes it to its destination.
RECURSIVE PresentAt(_, _, _)
PresentAt(P, rows, n) ==
    IF n <= 1 THEN P
    ELSE LET Q == PresentAt(P, rows, n - 1)
             row == rows[n - 1]
         IN  IF source_file(row) \in Q
             THEN (Q \ {source_file(row)}) \cup {dest_file(row)}
             ELSE Q

\* The source of row n is absent when run r reaches the row.
MissingAt(r, n) ==
    source_file(df[r][n]) \notin PresentAt(FilesOf(fs0[r]), df[r], n)

----------------------------------------------------------------------------
(* C8: a run handles the rows strictly in table order, each exactly once:  *)
(* its log is genre directory of row 1, outcome of row 1, genre directory  *)
(* of row 2, outcome of row 2, ..., each event naming the paths of its     *)
(* row, and the completion line comes after the last row only.             *)
C8_TableOrder ==
    \A r \in Runs : \A k \in 1..Len(log[r]) :
        LET e == log[r][k]
            n == (k + 1) \div 2
        IN  IF e.op = "done"
            THEN k = 2 * Len(table) + 1
            ELSE /\ n \in 1..Len(table)
                 /\ e.row = n
                 /\ e.src = source_file(table[n])
                 /\ e.dst = dest_file(table[n])
                 /\ (k % 2 = 1 => e.op = "mkdir")
                 /\ (k % 2 = 0 => e.op \in {"move", "warn"})

\* A run has completed a table whose first row it moved and whose second row it warned about.
C8_Witness ==
    \E r \in Runs :
        /\ pc[r] = "done"
        /\ Len(table) >= 2
        /\ Moved(r, 1)
        /\ Warned(r, 2)
        /\ table[1] # table[2]

----------------------------------------------------------------------------
(* C2: a row whose source is absent when the run reaches it gets exactly   *)
(* one warning, which names the row's source path; a row whose source is   *)
(* present gets none; neither raises, and the run goes on with the next    *)
(* row.                                                                    *)
C2_WarningPerMissingRow ==
    \A r \in Runs :
        /\ idx[r] > 0 => err[r] = NoError /\ pc[r] # "crashed"
        /\ \A n \in RowNums(r) :
              RowDone(r, n) =>
                  /\ Cardinality(EventsOf(r, "warn", n)) = (IF MissingAt(r, n) THEN 1 ELSE 0)
                  /\ \A k \in EventsOf(r, "warn", n) :
                        log[r][k].src = source_file(df[r][n])
        /\ pc[r] = "done" =>
              \A n \in RowNums(r) : Cardinality(EventsOf(r, "move", n) \cup EventsOf(r, "warn", n)) = 1

\* A run has warned about a first row and has gone on to a second one.
C2_Witness ==
    \E r \in Runs :
        /\ idx[r] = 2
        /\ Warned(r, 1)
        /\ MissingAt(r, 1)
        /\ ~MissingAt(r, 2)
        /\ RowDone(r, 2)

----------------------------------------------------------------------------
(* C4: a run whose fetch or whose metadata load raised has ended in an     *)
(* error state without entering the loop: it has handled no row, printed   *)
(* nothing and moved nothing (in a first run every local file is still     *)
(* where the fetch put it).                                                *)
C4_FatalErrors ==
    \A r \in Runs :
        err[r].at \in {"fetch", "read"} =>
            /\ pc[r] = "crashed"
            /\ err[r].exc # "none"
            /\ log[r] = <<>>
            /\ idx[r] = 0
            /\ df[r] = <<>>
            /\ (r = "first" /\ idx["second"] = 0 =>
                    \A p \in FilesOf(fs) : p = Join(local_dir, fs[p].data))

\* The metadata load of a run raised although the fetch had brought files.
C4_Witness ==
    \E r \in Runs :
        /\ err[r].at = "read"
        /\ FilesOf(fs) # {}
        /\ remote # {}

----------------------------------------------------------------------------
(* C1, as claimed: once a run has completed, every row whose source was a  *)
(* file when the run entered the loop has a file at its destination and    *)
(* none at its source, whatever the table.                                 *)
C1_AsClaimed ==
    \A r \in Runs :
        Settled(r) =>
            \A n \in RowNums(r) :
                isfile(fs0[r], source_file(df[r][n])) =>
                    /\ isfile(fs, dest_file(df[r][n]))
                    /\ ~exists(fs, source_file(df[r][n]))

\* Row n of run r shares no path with the other side of any row: its source
\* is no row's destination, its destination is no row's source, and no
\* earlier row sends the same source to another genre.
C1_Separate(r, n) ==
    /\ source_file(df[r][n]) \notin Dests(r)
    /\ dest_file(df[r][n]) \notin Sources(r)
    /\ \A m \in 1..(n - 1) :
          source_file(df[r][m]) = source_file(df[r][n]) =>
              dest_file(df[r][m]) = dest_file(df[r][n])

(* C1, amended: once a run has completed, every row whose source was a     *)
(* file when the run entered the loop has a file at its destination and    *)
(* none at its source, provided the row's source path is not the           *)
(* destination path of any row, its destination path is not the source     *)
(* path of any row, and no earlier row names the same source path with     *)
(* another class label.                                                    *)
C1_MovedToGenre ==
    \A r \in Runs :
        Settled(r) =>
            \A n \in RowNums(r) :
                isfile(fs0[r], source_file(df[r][n])) /\ C1_Separate(r, n) =>
                    /\ isfile(fs, dest_file(df[r][n]))
                    /\ ~exists(fs, source_file(df[r][n]))

\* A run has completed a table that repeats a row whose source was present:
\* it moved the file for the first copy and warned for the second.
C1_Witness ==
    \E r \in Runs :
        /\ Settled(r)
        /\ Len(df[r]) = 2
        /\ df[r][1] = df[r][2]
        /\ \A n \in RowNums(r) :
              isfile(fs0[r], source_file(df[r][n])) /\ C1_Separate(r, n)
        /\ Moved(r, 1) /\ Warned(r, 2)
        /\ isfile(fs, dest_file(df[r][1]))

----------------------------------------------------------------------------
(* C5, as claimed: once a run has completed, of any two rows with          *)
(* different source files and the same destination whose sources were      *)
(* files when the run entered the loop, the destination holds the file of  *)
(* the later row, neither source path holds a file, and the run raised     *)
(* nothing.                                                                *)
C5_AsClaimed ==
    \A r \in Runs :
        Settled(r) =>
            \A i, j \in RowNums(r) :
                (/\ i < j
                 /\ source_file(df[r][i]) # source_file(df[r][j])
                 /\ dest_file(df[r][i]) = dest_file(df[r][j])
                 /\ isfile(fs0[r], source_file(df[r][i]))
                 /\ isfile(fs0[r], source_file(df[r][j]))) =>
                    /\ err[r] = NoError
                    /\ isfile(fs, dest_file(df[r][j]))
                    /\ fs[dest_file(df[r][j])] = fs0[r][source_file(df[r][j])]
                    /\ ~exists(fs, source_file(df[r][i]))
                    /\ ~exists(fs, source_file(df[r][j]))

\* Rows i < j of run r are the only rows with their destination, no earlier
\* row sends the source of row j elsewhere, the destination is no row's
\* source and neither source is a row's destination.
C5_Separate(r, i, j) ==
    /\ \A k \in RowNums(r) :
          dest_file(df[r][k]) = dest_file(df[r][j]) => k \in {i, j}
    /\ \A k \in 1..(j - 1) :
          source_file(df[r][k]) = source_file(df[r][j]) => k = i
    /\ dest_file(df[r][j]) \notin Sources(r)
    /\ source_file(df[r][i]) \notin Dests(r)
    /\ source_file(df[r][j]) \notin Dests(r)

(* C5, amended: once a run has completed, of two different rows with the   *)
(* same destination whose sources were files when the run entered the      *)
(* loop, the destination holds the file of the later row, neither source   *)
(* path holds a file and the run raised nothing, provided no third row has *)
(* that destination, no earlier row with another destination names the     *)
(* later row's source, the destination path is no row's source path and    *)
(* neither source path is a row's destination path.                        *)
C5_LaterRowWins ==
    \A r \in Runs :
        Settled(r) =>
            \A i, j \in RowNums(r) :
                (/\ i < j
                 /\ dest_file(df[r][i]) = dest_file(df[r][j])
                 /\ isfile(fs0[r], source_file(df[r][i]))
                 /\ isfile(fs0[r], source_file(df[r][j]))
                 /\ C5_Separate(r, i, j)) =>
                    /\ err[r] = NoError
                    /\ isfile(fs, dest_file(df[r][j]))
                    /\ fs[dest_file(df[r][j])] = fs0[r][source_file(df[r][j])]
                    /\ ~exists(fs, source_file(df[r][i]))
                    /\ ~exists(fs, source_file(df[r][j]))

\* A run has completed after moving two different files to one destination.
C5_Witness ==
    \E r \in Runs : \E i, j \in RowNums(r) :
        /\ Settled(r)
        /\ i < j
        /\ dest_file(df[r][i]) = dest_file(df[r][j])
        /\ source_file(df[r][i]) # source_file(df[r][j])
        /\ isfile(fs0[r], source_file(df[r][i]))
        /\ isfile(fs0[r], source_file(df[r][j]))
        /\ C5_Separate(r, i, j)
        /\ Moved(r, i) /\ Moved(r, j)

----------------------------------------------------------------------------
(* C7, as claimed: when a second run of the script has completed after a   *)
(* completed first run, every row the first run moved got a warning from   *)
(* the second run and was not moved by it.                                 *)
C7_AsClaimed ==
    (pc["first"] = "done" /\ pc["second"] = "done") =>
        \A n \in RowNums("first") :
            Moved("first", n) => Warned("second", n) /\ ~Moved("second", n)

(* C7, amended: a second run of the script fetches the snapshot again      *)
(* before its loop, which puts back every file the first run moved away;   *)
(* so when it has completed after a completed first run, every row the     *)
(* first run moved has been moved again by the second run and got no       *)
(* warning from it.                                                        *)
C7_SecondRunMovesAgain ==
    (pc["first"] = "done" /\ pc["second"] = "done") =>
        \A n \in RowNums("first") :
            Moved("first", n) => Moved("second", n) /\ ~Warned("second", n)

\* Both runs have completed and the first moved a file out of the snapshot.
C7_Witness ==
    /\ pc["first"] = "done"
    /\ pc["second"] = "done"
    /\ \E n \in RowNums("first") :
          /\ Moved("first", n)
          /\ source_file(df["first"][n]) # dest_file(df["first"][n])
          /\ ~exists(fs0["first"], dest_file(df["first"][n]))

----------------------------------------------------------------------------
(* C10: no step of a run touches a file whose path is neither the source   *)
(* nor the destination of a row of the table: it stays at its path with    *)
(* its content.  And the steps a run takes for a row whose source is       *)
(* absent leave every file as it is and add no directory but the row's     *)
(* genre directory.                                                        *)
TableSources == {source_file(table[n]) : n \in 1..Len(table)}

TableDests == {dest_file(table[n]) : n \in 1..Len(table)}

C10_StepFrame ==
    /\ \A p \in FilesOf(fs) :
          p \notin TableSources \cup TableDests => isfile(fs', p) /\ fs'[p] = fs[p]
    /\ \A r \in Runs :
          (/\ pc[r] \in {"mkgenre", "check", "warn"}
           /\ pc'[r] # pc[r]
           /\ ~exists(fs, source_file(df[r][idx[r]]))) =>
              /\ FilesOf(fs') = FilesOf(fs)
              /\ \A p \in FilesOf(fs) : fs'[p] = fs[p]
              /\ DirsOf(fs) \subseteq DirsOf(fs')
              /\ DirsOf(fs') \subseteq DirsOf(fs) \cup {genre_dir(df[r][idx[r]])}

C10_Frame == [][C10_StepFrame]_vars

\* A run has completed, moving one row and warning about another, beside an
\* audio file that no row names.
C10_Witness ==
    \E r \in Runs :
        /\ Settled(r)
        /\ \E n, m \in RowNums(r) : Moved(r, n) /\ Warned(r, m)
        /\ \E p \in FilesOf(fs0[r]) :
              /\ p # Join(base_dir, csv_name)
              /\ p \notin TableSources \cup TableDests
              /\ isfile(fs, p)

----------------------------------------------------------------------------
(* C6: once a first run has completed, no later step creates or removes a  *)
(* directory, and the second run raises no error from creating the test    *)
(* directory or a genre directory.                                         *)
C6_StepDirs ==
    pc["first"] = "done" =>
        /\ DirsOf(fs') = DirsOf(fs)
        /\ err'["second"].at \notin {"mksave", "mkgenre"}
        /\ err'["second"].exc \notin {"FileExistsError", "NotADirectoryError"}

C6_DirsIdempotent == [][C6_StepDirs]_vars

\* The second run has completed after the first created two genre directories.
C6_Witness ==
    /\ pc["first"] = "done"
    /\ pc["second"] = "done"
    /\ \E n, m \in RowNums("second") :
          /\ genre_dir(df["second"][n]) # genre_dir(df["second"][m])
          /\ isdir(fs0["second"], genre_dir(df["second"][n]))
          /\ isdir(fs0["second"], genre_dir(df["second"][m]))

----------------------------------------------------------------------------
(* C3: a run whose fetch and metadata load succeeded eventually prints the *)
(* completion line; the line is printed once, as the last line, after      *)
(* every row has had its move or its warning.                              *)
DoneLines(r) == {k \in 1..Len(log[r]) : log[r][k].op = "done"}

C3_DoneLineLast ==
    \A r \in Runs :
        /\ Cardinality(DoneLines(r)) = (IF pc[r] = "done" THEN 1 ELSE 0)
        /\ \A k \in DoneLines(r) :
              /\ k = Len(log[r])
              /\ \A n \in RowNums(r) :
                    \E j \in 1..(k - 1) :
                        log[r][j].row = n /\ log[r][j].op \in {"move", "warn"}

C3_Completes ==
    /\ \A r \in Runs : (pc[r] = "iter") ~> (pc[r] = "done")
    /\ []C3_DoneLineLast

\* A run has printed the completion line after a warning for each of several
\* rows.
C3_Witness ==
    \E r \in Runs :
        /\ pc[r] = "done"
        /\ Len(df[r]) >= 2
        /\ \A n \in RowNums(r) : Warned(r, n)

----------------------------------------------------------------------------
(* C9: in interleaved runs a move raises only for a source that is gone,   *)
(* and only because the other run moved that very source away after the    *)
(* failing run had found it present.                                       *)
C9_RaceOnMove ==
    \A r \in Runs :
        err[r].at = "move" =>
            /\ err[r].exc = "FileNotFoundError"
            /\ \E q \in Runs \ {r} : \E k \in 1..Len(log[q]) :
                  /\ log[q][k].op = "move"
                  /\ log[q][k].src = source_file(df[r][idx[r]])

\* A run found its source present, the other run moved the source away, and
\* the first run's move raised instead of warning.
C9_Witness ==
    \E r \in Runs : \E q \in Runs \ {r} :
        /\ pc[r] = "crashed"
        /\ err[r] = [at |-> "move", exc |-> "FileNotFoundError"]
        /\ ~Warned(r, idx[r])
        /\ \E n \in RowNums(q) :
              Moved(q, n) /\ source_file(df[q][n]) = source_file(df[r][idx[r]])

====
